---- MODULE Spec2Model ----
(***************************************************************************)
(* CheckTransaction (src/consensus/tx_check.cpp): the context-free         *)
(* consensus check of one transaction, as a state machine.  The            *)
(* transaction is fixed by Init; every action is one straight-line check   *)
(* block or one loop iteration of the function, in source order.           *)
(***************************************************************************)
EXTENDS Integers, Sequences, FiniteSets, TLC

\* ------------------------------------------------------------------ bounds
MaxVin == 2
MaxVout == 2
MaxJoinSplit == 2
MaxSpend == 2

\* --------------------------------------------------------------- constants
\* CAmount is int64_t; the model keeps the two's-complement shape on a
\* narrower word, and MAX_MONEY scaled with it (2 * MAX_MONEY fits the word,
\* as 2 * 21e14 fits int64_t).
CAmountBits == 4
INT_MAX == 2 ^ (CAmountBits - 1) - 1
INT_MIN == -(2 ^ (CAmountBits - 1))
CAmountRange == INT_MIN .. INT_MAX
MAX_MONEY == 2
\* tx.vin[0].scriptSig.size() < 2 || ... > 100
CB_SCRIPT_MIN == 2
CB_SCRIPT_MAX == 100

Pending == "pending"
Valid == "Valid"
Ok == "ok"

\* COutPoint::IsNull / uint256::IsNull: the reserved null sentinel.
NullOutPoint == 0
NullNullifier == 0

MoneyRange(nValue) == nValue >= 0 /\ nValue <= MAX_MONEY

\* Signed addition and negation of CAmount: the mathematical result when it is
\* representable; otherwise (signed overflow, undefined behaviour) any value.
AddResults(a, b) == IF a + b \in CAmountRange THEN {a + b} ELSE CAmountRange
NegResults(a) == IF -a \in CAmountRange THEN {-a} ELSE CAmountRange

\* ------------------------------------------------------------ transactions
TxIn(p, s) == [prevout |-> p, scriptSigSize |-> s]
JSDescription(old, new, nf) == [vpub_old |-> old, vpub_new |-> new, nullifiers |-> nf]
\* oversize stands for GetSerializeSize(tx, ...) * WITNESS_SCALE_FACTOR >
\* MAX_BLOCK_WEIGHT; vShieldedOutput is opaque, only its emptiness is read.
CTransaction(in, out, js, spend, output, vb, big) ==
    [vin |-> in, vout |-> out, vJoinSplit |-> js, vShieldedSpend |-> spend,
     vShieldedOutput |-> output, valueBalance |-> vb, oversize |-> big]

SeqUpTo(S, n) == UNION {[1 .. k -> S] : k \in 0 .. n}

OutValues == {-1, 0, 1, MAX_MONEY, MAX_MONEY + 1}
BalanceValues == {INT_MIN, -MAX_MONEY - 1, -MAX_MONEY, -1, 0, 1, MAX_MONEY, MAX_MONEY + 1}
JSAmounts == {<<0, 0>>, <<1, 0>>, <<MAX_MONEY, 0>>, <<0, 1>>, <<0, MAX_MONEY>>,
              <<1, 1>>, <<-1, 0>>, <<0, -1>>, <<MAX_MONEY + 1, 0>>,
              <<0, MAX_MONEY + 1>>, <<0, INT_MAX>>}
Hashes == 0 .. 2
ScriptSizes == {CB_SCRIPT_MIN - 1, CB_SCRIPT_MIN, CB_SCRIPT_MAX, CB_SCRIPT_MAX + 1}

OneInput == <<TxIn(1, CB_SCRIPT_MIN)>>
OutputDesc == "outputdesc"

\* join-splits whose amounts are amts[k] and whose nullifiers are all distinct
JoinSplitsOf(amts) ==
    [k \in 1 .. Len(amts) |-> JSDescription(amts[k][1], amts[k][2], <<2 * k - 1, 2 * k>>)]
\* join-splits carrying no value, with the nullifier pairs nfs[k]
NullifierJoinSplits(nfs) ==
    [k \in 1 .. Len(nfs) |-> JSDescription(0, 0, nfs[k])]
\* inputs with the previous outputs ps[k]; only the first script's size varies
InputsOf(ps, s) ==
    [k \in 1 .. Len(ps) |-> TxIn(ps[k], IF k = 1 THEN s ELSE CB_SCRIPT_MIN)]

VARIABLES tx, pc, i, verdict, nValueOut, nValueIn, lastAdd,
          vInOutPoints, vInSproutNullifiers, vInSaplingNullifiers

\* The transactions checked, in five families; each is a predicate on tx.
\* value accounting: outputs and the pool balance delta vary
TxOutputs ==
    \E out \in SeqUpTo(OutValues, MaxVout),
       js \in {<<>>, JoinSplitsOf(<<<<1, 0>>>>), JoinSplitsOf(<<<<0, 1>>>>)},
       spend \in {<<>>, <<1>>},
       vb \in BalanceValues,
       big \in BOOLEAN :
        tx = CTransaction(OneInput, out, js, spend, <<>>, vb, big)
\* value accounting: join-splits and the pool balance delta vary
TxJoinSplits ==
    \E out \in {<<>>, <<1>>, <<MAX_MONEY>>},
       amts \in SeqUpTo(JSAmounts, MaxJoinSplit),
       output \in {<<>>, <<OutputDesc>>},
       vb \in BalanceValues :
        tx = CTransaction(OneInput, out, JoinSplitsOf(amts), <<>>, output, vb, FALSE)
\* duplicate detection: transparent inputs and second-generation spends vary
TxInputDups ==
    \E ps \in SeqUpTo(Hashes, MaxVin),
       js \in {<<>>, NullifierJoinSplits(<<<<1, 2>>>>)},
       spend \in SeqUpTo(Hashes, MaxSpend) :
        tx = CTransaction(InputsOf(ps, CB_SCRIPT_MIN), <<1>>, js, spend, <<>>, 0, FALSE)
\* duplicate detection: first- and second-generation nullifiers vary
TxNullifierDups ==
    \E nfs \in SeqUpTo(Hashes \X Hashes, MaxJoinSplit),
       spend \in SeqUpTo(Hashes, MaxSpend) :
        tx = CTransaction(OneInput, <<1>>, NullifierJoinSplits(nfs), spend, <<>>, 0, FALSE)
\* coinbase and ordinary rules: inputs, script size and spends vary
TxCoinbase ==
    \E ps \in SeqUpTo(Hashes, MaxVin),
       s \in ScriptSizes,
       out \in {<<>>, <<1>>},
       spend \in SeqUpTo(Hashes, MaxSpend),
       output \in {<<>>, <<OutputDesc>>},
       vb \in {0, 1} :
        tx = CTransaction(InputsOf(ps, s), out, <<>>, spend, output, vb, FALSE)

\* ------------------------------------------------------------------- state
vars == <<tx, pc, i, verdict, nValueOut, nValueIn, lastAdd,
          vInOutPoints, vInSproutNullifiers, vInSaplingNullifiers>>
sets == <<vInOutPoints, vInSproutNullifiers, vInSaplingNullifiers>>

Init ==
    /\ TxOutputs \/ TxJoinSplits \/ TxInputDups \/ TxNullifierDups \/ TxCoinbase
    /\ pc = "shape"
    /\ i = 1
    /\ verdict = Pending
    /\ nValueOut = 0
    /\ nValueIn = 0
    /\ lastAdd = <<>>
    /\ vInOutPoints = {}
    /\ vInSproutNullifiers = {}
    /\ vInSaplingNullifiers = {}

\* return state.Invalid(..., reason)
Invalid(reason) == verdict' = reason /\ UNCHANGED <<pc, i>>
\* fall through to the next block of the function
Goto(label) == pc' = label /\ i' = 1 /\ UNCHANGED verdict
\* next iteration of the current loop
Continue == i' = i + 1 /\ UNCHANGED <<pc, verdict>>

\* ------------------------------------------------------------ 4.1 shape
ShapeReason(t) ==
    IF t.vin = <<>> /\ t.vJoinSplit = <<>> /\ t.vShieldedSpend = <<>>
    THEN "bad-txns-vin-empty"
    ELSE IF t.vout = <<>> /\ t.vJoinSplit = <<>> /\ t.vShieldedOutput = <<>>
    THEN "bad-txns-vout-empty"
    ELSE IF t.oversize THEN "bad-txns-oversize"
    ELSE Ok

CheckShape ==
    /\ verdict = Pending /\ pc = "shape"
    /\ IF ShapeReason(tx) # Ok THEN Invalid(ShapeReason(tx)) ELSE Goto("vout")
    /\ UNCHANGED <<tx, nValueOut, nValueIn, lastAdd, sets>>

\* ------------------------------------------------ 4.2 transparent outputs
VoutReason(nValue) ==
    IF nValue < 0 THEN "bad-txns-vout-negative"
    ELSE IF nValue > MAX_MONEY THEN "bad-txns-vout-toolarge"
    ELSE Ok

\* faulty variant: a failed per-output check does not return
VoutStep_NoReturn ==
    /\ verdict = Pending /\ pc = "vout"
    /\ IF i > Len(tx.vout)
       THEN Goto("valueBalance") /\ UNCHANGED <<nValueOut, lastAdd>>
       ELSE IF VoutReason(tx.vout[i]) # Ok
       THEN Continue /\ UNCHANGED <<nValueOut, lastAdd>>
       ELSE \E s \in AddResults(nValueOut, tx.vout[i]) :
                /\ nValueOut' = s
                /\ lastAdd' = <<nValueOut, tx.vout[i]>>
                /\ IF MoneyRange(s) THEN Continue
                   ELSE Invalid("bad-txns-txouttotal-toolarge")
    /\ UNCHANGED <<tx, nValueIn, sets>>

VoutStep ==
    /\ verdict = Pending /\ pc = "vout"
    /\ IF i > Len(tx.vout)
       THEN Goto("valueBalance") /\ UNCHANGED <<nValueOut, lastAdd>>
       ELSE IF VoutReason(tx.vout[i]) # Ok
       THEN Invalid(VoutReason(tx.vout[i])) /\ UNCHANGED <<nValueOut, lastAdd>>
       ELSE \E s \in AddResults(nValueOut, tx.vout[i]) :
                /\ nValueOut' = s
                /\ lastAdd' = <<nValueOut, tx.vout[i]>>
                /\ IF MoneyRange(s) THEN Continue
                   ELSE Invalid("bad-txns-txouttotal-toolarge")
    /\ UNCHANGED <<tx, nValueIn, sets>>

\* ------------------------------------------------ 4.3 pool balance delta
\* faulty variant: the range check runs before the non-zero check
ValueBalanceReason_RangeFirst(t) ==
    IF t.valueBalance > MAX_MONEY \/ t.valueBalance < -MAX_MONEY
    THEN "bad-txns-valuebalance-toolarge"
    ELSE IF t.vShieldedSpend = <<>> /\ t.vShieldedOutput = <<>> /\ t.valueBalance # 0
    THEN "bad-txns-valuebalance-nonzero"
    ELSE Ok

ValueBalanceReason(t) ==
    IF t.vShieldedSpend = <<>> /\ t.vShieldedOutput = <<>> /\ t.valueBalance # 0
    THEN "bad-txns-valuebalance-nonzero"
    ELSE IF t.valueBalance > MAX_MONEY \/ t.valueBalance < -MAX_MONEY
    THEN "bad-txns-valuebalance-toolarge"
    ELSE Ok

CheckValueBalance ==
    /\ verdict = Pending /\ pc = "valueBalance"
    /\ IF ValueBalanceReason(tx) # Ok THEN Invalid(ValueBalanceReason(tx))
       ELSE Goto("valueBalanceOut")
    /\ UNCHANGED <<tx, nValueOut, nValueIn, lastAdd, sets>>

\* faulty variant: the total is not range-checked after the delta's leg is added
ValueBalanceOut_NoRangeCheck ==
    /\ verdict = Pending /\ pc = "valueBalanceOut"
    /\ IF tx.valueBalance <= 0
       THEN \E n \in NegResults(tx.valueBalance) : \E s \in AddResults(nValueOut, n) :
                /\ nValueOut' = s
                /\ lastAdd' = <<nValueOut, n>>
                /\ Goto("joinsplit")
       ELSE Goto("joinsplit") /\ UNCHANGED <<nValueOut, lastAdd>>
    /\ UNCHANGED <<tx, nValueIn, sets>>

\* faulty variant: the delta is added without being negated
ValueBalanceOut_WrongSign ==
    /\ verdict = Pending /\ pc = "valueBalanceOut"
    /\ IF tx.valueBalance <= 0
       THEN \E s \in AddResults(nValueOut, tx.valueBalance) :
                /\ nValueOut' = s
                /\ lastAdd' = <<nValueOut, tx.valueBalance>>
                /\ IF MoneyRange(s) THEN Goto("joinsplit")
                   ELSE Invalid("bad-txns-txouttotal-toolarge")
       ELSE Goto("joinsplit") /\ UNCHANGED <<nValueOut, lastAdd>>
    /\ UNCHANGED <<tx, nValueIn, sets>>

ValueBalanceOut ==
    /\ verdict = Pending /\ pc = "valueBalanceOut"
    /\ IF tx.valueBalance <= 0
       THEN \E n \in NegResults(tx.valueBalance) : \E s \in AddResults(nValueOut, n) :
                /\ nValueOut' = s
                /\ lastAdd' = <<nValueOut, n>>
                /\ IF MoneyRange(s) THEN Goto("joinsplit")
                   ELSE Invalid("bad-txns-txouttotal-toolarge")
       ELSE Goto("joinsplit") /\ UNCHANGED <<nValueOut, lastAdd>>
    /\ UNCHANGED <<tx, nValueIn, sets>>

\* ------------------------------- 4.4 join-splits and input-side accounting
\* faulty variant: vpub_new is not checked against MAX_MONEY in the first traversal
JoinSplitReason_NoNewBound(joinsplit) ==
    IF joinsplit.vpub_old < 0 THEN "bad-txns-vpub_old-negative"
    ELSE IF joinsplit.vpub_new < 0 THEN "bad-txns-vpub_new-negative"
    ELSE IF joinsplit.vpub_old > MAX_MONEY THEN "bad-txns-vpub_old-toolarge"
    ELSE IF joinsplit.vpub_new # 0 /\ joinsplit.vpub_old # 0
    THEN "bad-txns-vpubs-both-nonzero"
    ELSE Ok

JoinSplitReason(joinsplit) ==
    IF joinsplit.vpub_old < 0 THEN "bad-txns-vpub_old-negative"
    ELSE IF joinsplit.vpub_new < 0 THEN "bad-txns-vpub_new-negative"
    ELSE IF joinsplit.vpub_old > MAX_MONEY THEN "bad-txns-vpub_old-toolarge"
    ELSE IF joinsplit.vpub_new > MAX_MONEY THEN "bad-txns-vpub_new-toolarge"
    ELSE IF joinsplit.vpub_new # 0 /\ joinsplit.vpub_old # 0
    THEN "bad-txns-vpubs-both-nonzero"
    ELSE Ok

JoinSplitStep ==
    /\ verdict = Pending /\ pc = "joinsplit"
    /\ IF i > Len(tx.vJoinSplit)
       THEN Goto("valueIn") /\ UNCHANGED <<nValueOut, lastAdd>>
       ELSE IF JoinSplitReason(tx.vJoinSplit[i]) # Ok
       THEN Invalid(JoinSplitReason(tx.vJoinSplit[i])) /\ UNCHANGED <<nValueOut, lastAdd>>
       ELSE \E s \in AddResults(nValueOut, tx.vJoinSplit[i].vpub_old) :
                /\ nValueOut' = s
                /\ lastAdd' = <<nValueOut, tx.vJoinSplit[i].vpub_old>>
                /\ IF MoneyRange(s) THEN Continue
                   ELSE Invalid("bad-txns-txouttotal-toolarge")
    /\ UNCHANGED <<tx, nValueIn, sets>>

ValueInStep ==
    /\ verdict = Pending /\ pc = "valueIn"
    /\ IF i > Len(tx.vJoinSplit)
       THEN Goto("saplingIn") /\ UNCHANGED <<nValueIn, lastAdd>>
       ELSE \E s \in AddResults(nValueIn, tx.vJoinSplit[i].vpub_new) :
                /\ nValueIn' = s
                /\ lastAdd' = <<nValueIn, tx.vJoinSplit[i].vpub_new>>
                /\ IF ~MoneyRange(tx.vJoinSplit[i].vpub_new) \/ ~MoneyRange(s)
                   THEN Invalid("bad-txns-txintotal-toolarge")
                   ELSE Continue
    /\ UNCHANGED <<tx, nValueOut, sets>>

SaplingValueIn ==
    /\ verdict = Pending /\ pc = "saplingIn"
    /\ IF tx.valueBalance >= 0
       THEN \E s \in AddResults(nValueIn, tx.valueBalance) :
                /\ nValueIn' = s
                /\ lastAdd' = <<nValueIn, tx.valueBalance>>
                /\ IF MoneyRange(s) THEN Goto("dupInputs")
                   ELSE Invalid("bad-txns-txintotal-toolarge")
       ELSE Goto("dupInputs") /\ UNCHANGED <<nValueIn, lastAdd>>
    /\ UNCHANGED <<tx, nValueOut, sets>>

\* ------------------------------------------------ 4.5 duplicate detection
\* std::set::insert(x).second: FALSE when x is already in the set
Inserted(set, x) == x \notin set

\* faulty variant: the result of the insertion is ignored
DupInputStep_NoCheck ==
    /\ verdict = Pending /\ pc = "dupInputs"
    /\ IF i > Len(tx.vin)
       THEN Goto("dupSprout") /\ UNCHANGED vInOutPoints
       ELSE vInOutPoints' = vInOutPoints \cup {tx.vin[i].prevout} /\ Continue
    /\ UNCHANGED <<tx, nValueOut, nValueIn, lastAdd, vInSproutNullifiers, vInSaplingNullifiers>>

DupInputStep ==
    /\ verdict = Pending /\ pc = "dupInputs"
    /\ IF i > Len(tx.vin)
       THEN Goto("dupSprout") /\ UNCHANGED vInOutPoints
       ELSE IF ~Inserted(vInOutPoints, tx.vin[i].prevout)
       THEN Invalid("bad-txns-inputs-duplicate") /\ UNCHANGED vInOutPoints
       ELSE vInOutPoints' = vInOutPoints \cup {tx.vin[i].prevout} /\ Continue
    /\ UNCHANGED <<tx, nValueOut, nValueIn, lastAdd, vInSproutNullifiers, vInSaplingNullifiers>>

\* one join-split: its two nullifiers are inserted in order
DupSproutStep ==
    /\ verdict = Pending /\ pc = "dupSprout"
    /\ IF i > Len(tx.vJoinSplit)
       THEN Goto("dupSapling") /\ UNCHANGED vInSproutNullifiers
       ELSE LET nf == tx.vJoinSplit[i].nullifiers IN
            IF ~Inserted(vInSproutNullifiers, nf[1])
            THEN Invalid("bad-joinsplits-nullifiers-duplicate")
                 /\ UNCHANGED vInSproutNullifiers
            ELSE IF ~Inserted(vInSproutNullifiers \cup {nf[1]}, nf[2])
            THEN Invalid("bad-joinsplits-nullifiers-duplicate")
                 /\ vInSproutNullifiers' = vInSproutNullifiers \cup {nf[1]}
            ELSE vInSproutNullifiers' = vInSproutNullifiers \cup {nf[1], nf[2]}
                 /\ Continue
    /\ UNCHANGED <<tx, nValueOut, nValueIn, lastAdd, vInOutPoints, vInSaplingNullifiers>>

\* faulty variant: second-generation nullifiers share the first generation's set
DupSaplingStep_SharedSet ==
    /\ verdict = Pending /\ pc = "dupSapling"
    /\ IF i > Len(tx.vShieldedSpend)
       THEN Goto("rules") /\ UNCHANGED vInSaplingNullifiers
       ELSE IF ~Inserted(vInSproutNullifiers \cup vInSaplingNullifiers, tx.vShieldedSpend[i])
       THEN Invalid("bad-spend-description-nullifiers-duplicate")
            /\ UNCHANGED vInSaplingNullifiers
       ELSE vInSaplingNullifiers' = vInSaplingNullifiers \cup {tx.vShieldedSpend[i]}
            /\ Continue
    /\ UNCHANGED <<tx, nValueOut, nValueIn, lastAdd, vInOutPoints, vInSproutNullifiers>>

DupSaplingStep ==
    /\ verdict = Pending /\ pc = "dupSapling"
    /\ IF i > Len(tx.vShieldedSpend)
       THEN Goto("rules") /\ UNCHANGED vInSaplingNullifiers
       ELSE IF ~Inserted(vInSaplingNullifiers, tx.vShieldedSpend[i])
       THEN Invalid("bad-spend-description-nullifiers-duplicate")
            /\ UNCHANGED vInSaplingNullifiers
       ELSE vInSaplingNullifiers' = vInSaplingNullifiers \cup {tx.vShieldedSpend[i]}
            /\ Continue
    /\ UNCHANGED <<tx, nValueOut, nValueIn, lastAdd, vInOutPoints, vInSproutNullifiers>>

\* ------------------------------------------- 4.6 coinbase / ordinary rules
\* "coinbase" if the first transparent input's previous output is null
IsCoinBase(t) == Len(t.vin) >= 1 /\ t.vin[1].prevout = NullOutPoint

\* faulty variant: the lower bound is off by one
CoinbaseReason_OffByOne(t) ==
    IF t.vin[1].scriptSigSize <= CB_SCRIPT_MIN \/ t.vin[1].scriptSigSize > CB_SCRIPT_MAX
    THEN "bad-cb-length"
    ELSE IF Len(t.vShieldedSpend) > 0 THEN "bad-cb-has-spend-description"
    ELSE Ok

CoinbaseReason(t) ==
    IF t.vin[1].scriptSigSize < CB_SCRIPT_MIN \/ t.vin[1].scriptSigSize > CB_SCRIPT_MAX
    THEN "bad-cb-length"
    ELSE IF Len(t.vShieldedSpend) > 0 THEN "bad-cb-has-spend-description"
    ELSE Ok

\* faulty variant: the nullifiers are checked before the inputs
OrdinaryReason_NullifiersFirst(t) ==
    IF \E k \in 1 .. Len(t.vShieldedSpend) : t.vShieldedSpend[k] = NullNullifier
    THEN "bad-spend-description-nullifier-null"
    ELSE IF \E k \in 1 .. Len(t.vin) : t.vin[k].prevout = NullOutPoint
    THEN "bad-txns-prevout-null"
    ELSE Ok

\* faulty variant: the inputs' previous outputs are not checked
OrdinaryReason_SkipInputs(t) ==
    IF \E k \in 1 .. Len(t.vShieldedSpend) : t.vShieldedSpend[k] = NullNullifier
    THEN "bad-spend-description-nullifier-null"
    ELSE Ok

OrdinaryReason(t) ==
    IF \E k \in 1 .. Len(t.vin) : t.vin[k].prevout = NullOutPoint
    THEN "bad-txns-prevout-null"
    ELSE IF \E k \in 1 .. Len(t.vShieldedSpend) : t.vShieldedSpend[k] = NullNullifier
    THEN "bad-spend-description-nullifier-null"
    ELSE Ok

\* return true
Accept == verdict' = Valid /\ UNCHANGED <<pc, i>>

CoinbaseRules ==
    /\ verdict = Pending /\ pc = "rules" /\ IsCoinBase(tx)
    /\ IF CoinbaseReason(tx) # Ok THEN Invalid(CoinbaseReason(tx)) ELSE Accept
    /\ UNCHANGED <<tx, nValueOut, nValueIn, lastAdd, sets>>

OrdinaryRules ==
    /\ verdict = Pending /\ pc = "rules" /\ ~IsCoinBase(tx)
    /\ IF OrdinaryReason(tx) # Ok THEN Invalid(OrdinaryReason(tx)) ELSE Accept
    /\ UNCHANGED <<tx, nValueOut, nValueIn, lastAdd, sets>>

Next ==
    \/ CheckShape
    \/ VoutStep
    \/ CheckValueBalance
    \/ ValueBalanceOut
    \/ JoinSplitStep
    \/ ValueInStep
    \/ SaplingValueIn
    \/ DupInputStep
    \/ DupSproutStep
    \/ DupSaplingStep
    \/ CoinbaseRules
    \/ OrdinaryRules

Spec == Init /\ [][Next]_vars

\* ------------------------------------------------------- reference notions
\* The rules of each pass stated over the transaction alone, with unbounded
\* integer sums, independently of the operators and actions above.
RECURSIVE SumSeq(_)
SumSeq(s) == IF s = <<>> THEN 0 ELSE Head(s) + SumSeq(Tail(s))
Prefix(s, k) == SubSeq(s, 1, k)
InRange(a) == a \in 0 .. MAX_MONEY

OldAmounts(t) == [k \in 1 .. Len(t.vJoinSplit) |-> t.vJoinSplit[k].vpub_old]
NewAmounts(t) == [k \in 1 .. Len(t.vJoinSplit) |-> t.vJoinSplit[k].vpub_new]
OutLeg(t) == IF t.valueBalance <= 0 THEN -t.valueBalance ELSE 0
InLeg(t) == IF t.valueBalance > 0 THEN t.valueBalance ELSE 0
TotalOut(t) == SumSeq(t.vout) + OutLeg(t) + SumSeq(OldAmounts(t))
TotalIn(t) == SumSeq(NewAmounts(t)) + InLeg(t)
NoSapling(t) == t.vShieldedSpend = <<>> /\ t.vShieldedOutput = <<>>

FailsShape(t) ==
    \/ Len(t.vin) = 0 /\ Len(t.vJoinSplit) = 0 /\ Len(t.vShieldedSpend) = 0
    \/ Len(t.vout) = 0 /\ Len(t.vJoinSplit) = 0 /\ Len(t.vShieldedOutput) = 0
    \/ t.oversize
FailsOutputs(t) ==
    \E k \in 1 .. Len(t.vout) :
        ~InRange(t.vout[k]) \/ ~InRange(SumSeq(Prefix(t.vout, k)))
FailsBalance(t) ==
    \/ NoSapling(t) /\ t.valueBalance # 0
    \/ t.valueBalance > MAX_MONEY \/ t.valueBalance < -MAX_MONEY
    \/ ~InRange(SumSeq(t.vout) + OutLeg(t))
FailsJoinSplits(t) ==
    \/ \E k \in 1 .. Len(t.vJoinSplit) :
          \/ ~InRange(t.vJoinSplit[k].vpub_old)
          \/ ~InRange(t.vJoinSplit[k].vpub_new)
          \/ t.vJoinSplit[k].vpub_old # 0 /\ t.vJoinSplit[k].vpub_new # 0
          \/ ~InRange(SumSeq(t.vout) + OutLeg(t) + SumSeq(Prefix(OldAmounts(t), k)))
          \/ ~InRange(SumSeq(Prefix(NewAmounts(t), k)))
    \/ ~InRange(TotalIn(t))

HasDupInputs(t) ==
    \E a, b \in 1 .. Len(t.vin) : a < b /\ t.vin[a].prevout = t.vin[b].prevout
SproutNullifiers(t) ==
    [k \in 1 .. 2 * Len(t.vJoinSplit) |-> t.vJoinSplit[(k + 1) \div 2].nullifiers[2 - (k % 2)]]
HasDupSprout(t) ==
    \E a, b \in 1 .. 2 * Len(t.vJoinSplit) :
        a < b /\ SproutNullifiers(t)[a] = SproutNullifiers(t)[b]
HasDupSapling(t) ==
    \E a, b \in 1 .. Len(t.vShieldedSpend) : a < b /\ t.vShieldedSpend[a] = t.vShieldedSpend[b]
FailsDuplicates(t) == HasDupInputs(t) \/ HasDupSprout(t) \/ HasDupSapling(t)

NullInputs(t) == {k \in 1 .. Len(t.vin) : t.vin[k].prevout = NullOutPoint}
NullSpends(t) == {k \in 1 .. Len(t.vShieldedSpend) : t.vShieldedSpend[k] = NullNullifier}
FirstInputNull(t) == 1 \in NullInputs(t)
CbLengthBad(t) == t.vin[1].scriptSigSize < 2 \/ t.vin[1].scriptSigSize > 100
FailsRules(t) ==
    IF FirstInputNull(t)
    THEN CbLengthBad(t) \/ Len(t.vShieldedSpend) > 0
    ELSE NullInputs(t) # {} \/ NullSpends(t) # {}

FirstFailing(t) ==
    IF FailsShape(t) THEN 1
    ELSE IF FailsOutputs(t) THEN 2
    ELSE IF FailsBalance(t) THEN 3
    ELSE IF FailsJoinSplits(t) THEN 4
    ELSE IF FailsDuplicates(t) THEN 5
    ELSE IF FailsRules(t) THEN 6
    ELSE 0

PassOf(label) ==
    CASE label = "shape" -> 1
      [] label = "vout" -> 2
      [] label \in {"valueBalance", "valueBalanceOut"} -> 3
      [] label \in {"joinsplit", "valueIn", "saplingIn"} -> 4
      [] label \in {"dupInputs", "dupSprout", "dupSapling"} -> 5
      [] label = "rules" -> 6

ReasonsOf(pass) ==
    CASE pass = 1 -> {"bad-txns-vin-empty", "bad-txns-vout-empty", "bad-txns-oversize"}
      [] pass = 2 -> {"bad-txns-vout-negative", "bad-txns-vout-toolarge",
                      "bad-txns-txouttotal-toolarge"}
      [] pass = 3 -> {"bad-txns-valuebalance-nonzero", "bad-txns-valuebalance-toolarge",
                      "bad-txns-txouttotal-toolarge"}
      [] pass = 4 -> {"bad-txns-vpub_old-negative", "bad-txns-vpub_new-negative",
                      "bad-txns-vpub_old-toolarge", "bad-txns-vpub_new-toolarge",
                      "bad-txns-vpubs-both-nonzero", "bad-txns-txouttotal-toolarge",
                      "bad-txns-txintotal-toolarge"}
      [] pass = 5 -> {"bad-txns-inputs-duplicate", "bad-joinsplits-nullifiers-duplicate",
                      "bad-spend-description-nullifiers-duplicate"}
      [] pass = 6 -> {"bad-cb-length", "bad-cb-has-spend-description",
                      "bad-txns-prevout-null", "bad-spend-description-nullifier-null"}

Done == verdict # Pending
Rejected == verdict \notin {Pending, Valid}

\* ------------------------------------------------------------------ claims

\* C1: every accepted transaction has each output amount, each join-split's
\* vpub_old and vpub_new, the final total_out and the final total_in within
\* [0, MAX_MONEY]; the running totals the function ends with are those sums.
AcceptedAmountsInRange ==
    verdict = Valid =>
        /\ \A k \in 1 .. Len(tx.vout) : InRange(tx.vout[k])
        /\ \A k \in 1 .. Len(tx.vJoinSplit) :
              InRange(tx.vJoinSplit[k].vpub_old) /\ InRange(tx.vJoinSplit[k].vpub_new)
        /\ InRange(TotalOut(tx)) /\ nValueOut = TotalOut(tx)
        /\ InRange(TotalIn(tx)) /\ nValueIn = TotalIn(tx)

\* C1 witness: an accepted transaction whose total_out reaches MAX_MONEY with
\* an output, a negative delta and a join-split all contributing.
AcceptedAtSupplyBound ==
    /\ verdict = Valid
    /\ tx.valueBalance < 0
    /\ Len(tx.vJoinSplit) > 0
    /\ TotalOut(tx) = MAX_MONEY
    /\ TotalIn(tx) = 0

\* C2: the passes run in the fixed order 4.1 .. 4.6 and the first failing one
\* decides: a rejection comes from the earliest pass the transaction violates,
\* with one of that pass's reason codes; the function only proceeds into a pass
\* when no earlier pass is violated; nothing of a later pass has been evaluated
\* (its working state is untouched); inside a pass a reason code is returned
\* only when the pass's preceding checks hold; Valid is returned only when no
\* pass fails.
FirstFailureDecides ==
    /\ verdict = Valid => FirstFailing(tx) = 0 /\ pc = "rules"
    /\ Rejected => /\ PassOf(pc) = FirstFailing(tx)
                   /\ verdict \in ReasonsOf(PassOf(pc))
    /\ verdict = Pending => FirstFailing(tx) = 0 \/ FirstFailing(tx) >= PassOf(pc)
    /\ PassOf(pc) < 2 => nValueOut = 0 /\ lastAdd = <<>>
    /\ pc \notin {"valueIn", "saplingIn"} /\ PassOf(pc) < 5 => nValueIn = 0
    /\ PassOf(pc) < 5 =>
          vInOutPoints = {} /\ vInSproutNullifiers = {} /\ vInSaplingNullifiers = {}
    /\ verdict = "bad-txns-vout-empty" => Len(tx.vin) + Len(tx.vShieldedSpend) > 0
    /\ verdict = "bad-txns-oversize" =>
          Len(tx.vout) + Len(tx.vJoinSplit) + Len(tx.vShieldedOutput) > 0
    /\ verdict = "bad-txns-valuebalance-toolarge" => ~NoSapling(tx)
    /\ verdict = "bad-joinsplits-nullifiers-duplicate" => ~HasDupInputs(tx)
    /\ verdict = "bad-spend-description-nullifiers-duplicate" =>
          ~HasDupInputs(tx) /\ ~HasDupSprout(tx)
    /\ verdict = "bad-cb-has-spend-description" => ~CbLengthBad(tx)
    /\ verdict = "bad-spend-description-nullifier-null" => NullInputs(tx) = {}

\* C2 witness: a transaction violating three passes at once (shape, duplicates,
\* coinbase rules), rejected by the earliest.
RejectedWithSeveralViolations ==
    /\ verdict = "bad-txns-vout-empty"
    /\ FailsDuplicates(tx)
    /\ FailsRules(tx)

\* C3 (as stated): two transparent inputs sharing a previous output make the
\* verdict bad-txns-inputs-duplicate whatever the other fields are.
DuplicateInputsAlwaysReported ==
    Done /\ HasDupInputs(tx) => verdict = "bad-txns-inputs-duplicate"

\* C3 (amended): two transparent inputs sharing a previous output make the
\* verdict bad-txns-inputs-duplicate whenever no check of 4.1 .. 4.4 fails,
\* whatever the nullifiers, the null references and the script sizes are.
DuplicateInputsReportedAfterAccounting ==
    /\ Done /\ HasDupInputs(tx) /\ FirstFailing(tx) \notin 1 .. 4
          => verdict = "bad-txns-inputs-duplicate"
    /\ Done /\ HasDupInputs(tx) => verdict # Valid

\* C3 witness: duplicate inputs reported although the transaction also repeats
\* a second-generation nullifier and breaks the coinbase rules.
DuplicateInputsReported ==
    /\ verdict = "bad-txns-inputs-duplicate"
    /\ HasDupSapling(tx)
    /\ FailsRules(tx)

\* C4 (as stated): an ordinary transaction (first input not null) with one
\* transparent input whose previous output is null is rejected with
\* bad-txns-prevout-null.
OrdinaryNullPrevoutAlwaysReported ==
    Done /\ ~FirstInputNull(tx) /\ Cardinality(NullInputs(tx)) = 1
        => verdict = "bad-txns-prevout-null"

\* C4 (amended): an ordinary transaction (first input not null) with one
\* transparent input whose previous output is null is rejected with
\* bad-txns-prevout-null whenever no check of 4.1 .. 4.5 fails; a transaction
\* whose only transparent input is null is coinbase and never gets that verdict.
OrdinaryNullPrevoutReportedAfterDuplicates ==
    /\ Done /\ ~FirstInputNull(tx) /\ Cardinality(NullInputs(tx)) = 1
            /\ FirstFailing(tx) \notin 1 .. 5
          => verdict = "bad-txns-prevout-null"
    /\ Len(tx.vin) = 1 /\ FirstInputNull(tx) => verdict # "bad-txns-prevout-null"

\* C4 witness: an ordinary transaction rejected for its null previous output
\* although a second-generation spend has a null nullifier too.
OrdinaryNullPrevoutReported ==
    /\ verdict = "bad-txns-prevout-null"
    /\ ~FirstInputNull(tx)
    /\ Cardinality(NullInputs(tx)) = 1
    /\ NullSpends(tx) # {}

\* C5 (as stated): for a coinbase transaction the verdict is bad-cb-length
\* exactly when the first script's size is < 2 or > 100.
CoinbaseLengthAlwaysDecides ==
    Done /\ FirstInputNull(tx) => (verdict = "bad-cb-length" <=> CbLengthBad(tx))

\* C5 (amended): for a coinbase transaction that no check of 4.1 .. 4.5
\* rejects, the verdict is bad-cb-length exactly when the first script's size
\* is < 2 or > 100; a size within [2, 100] never gives bad-cb-length.
CoinbaseLengthDecidesAfterDuplicates ==
    /\ Done /\ FirstInputNull(tx) /\ FirstFailing(tx) \notin 1 .. 5
          => (verdict = "bad-cb-length" <=> CbLengthBad(tx))
    /\ verdict = "bad-cb-length" => FirstInputNull(tx) /\ CbLengthBad(tx)

\* C5 witness: a coinbase transaction with a first script of size 101 and a
\* spend description, rejected for the size.
CoinbaseLengthRejected ==
    /\ verdict = "bad-cb-length"
    /\ FirstInputNull(tx)
    /\ tx.vin[1].scriptSigSize = 101
    /\ Len(tx.vShieldedSpend) > 0

\* C6 (as stated): no second-generation spends or outputs and a non-zero
\* delta give the verdict bad-txns-valuebalance-nonzero.
NonzeroBalanceAlwaysReported ==
    Done /\ NoSapling(tx) /\ tx.valueBalance # 0
        => verdict = "bad-txns-valuebalance-nonzero"

\* C6 (amended): no second-generation spends or outputs and a non-zero delta
\* give the verdict bad-txns-valuebalance-nonzero whenever no check of 4.1 and
\* 4.2 fails, also when the delta's magnitude exceeds MAX_MONEY.
NonzeroBalanceReportedAfterOutputs ==
    /\ Done /\ NoSapling(tx) /\ tx.valueBalance # 0 /\ FirstFailing(tx) \notin 1 .. 2
          => verdict = "bad-txns-valuebalance-nonzero"
    /\ verdict = "bad-txns-valuebalance-nonzero" => NoSapling(tx) /\ tx.valueBalance # 0

\* C6 witness: the rule firing for a delta below -MAX_MONEY.
OversizedNonzeroBalanceReported ==
    /\ verdict = "bad-txns-valuebalance-nonzero"
    /\ tx.valueBalance < -MAX_MONEY

\* C7: at every addition, on accepting and rejecting paths, both operands lie
\* in [0, MAX_MONEY], so every value of total_out and total_in lies in
\* [0, 2 * MAX_MONEY] and fits the word; the delta is negated only when it is
\* in [-MAX_MONEY, 0]; the second join-split traversal adds a vpub_new that
\* the first traversal has already range-checked.
AdditionsNeverWrap ==
    /\ lastAdd # <<>> =>
          /\ InRange(lastAdd[1]) /\ InRange(lastAdd[2])
          /\ lastAdd[1] + lastAdd[2] \in CAmountRange
    /\ nValueOut \in 0 .. 2 * MAX_MONEY
    /\ nValueIn \in 0 .. 2 * MAX_MONEY
    /\ 2 * MAX_MONEY <= INT_MAX
    /\ verdict = Pending /\ pc = "valueBalanceOut" =>
          tx.valueBalance \in -MAX_MONEY .. MAX_MONEY
    /\ verdict = Pending /\ pc = "valueIn" /\ i <= Len(tx.vJoinSplit) =>
          InRange(tx.vJoinSplit[i].vpub_new) /\ InRange(nValueIn)
    /\ verdict = Pending /\ pc = "saplingIn" => InRange(nValueIn)
    /\ verdict = Pending /\ pc \in {"vout", "valueBalance", "valueBalanceOut", "joinsplit"} =>
          InRange(nValueOut)

\* C7 witness: a rejecting path on which the second traversal's running total
\* exceeded MAX_MONEY.
InputTotalExceeded ==
    /\ verdict = "bad-txns-txintotal-toolarge"
    /\ pc = "valueIn"
    /\ nValueIn > MAX_MONEY
    /\ lastAdd[1] > 0

\* C8: checkers that add the delta's outgoing leg after the join-split loop,
\* and that count a zero delta on both sides, on one side or on none, accept
\* exactly the transactions CheckTransaction accepts.
\* a running total is {total}, or {} once a range check has failed
RECURSIVE Accumulate(_, _)
Accumulate(total, amounts) ==
    IF total = {} \/ amounts = <<>> THEN total
    ELSE LET sum == (CHOOSE x \in total : TRUE) + Head(amounts) IN
         IF ~InRange(Head(amounts)) \/ ~InRange(sum) THEN {}
         ELSE Accumulate({sum}, Tail(amounts))
AddLeg(total, taken, leg) ==
    IF total = {} \/ ~taken THEN total
    ELSE {x + leg : x \in {y \in total : InRange(y + leg)}}
LateLegAccepts(t, zeroOut, zeroIn) ==
    /\ ~FailsShape(t)
    /\ ~(NoSapling(t) /\ t.valueBalance # 0)
    /\ t.valueBalance \in -MAX_MONEY .. MAX_MONEY
    /\ \A k \in 1 .. Len(t.vJoinSplit) :
          t.vJoinSplit[k].vpub_old = 0 \/ t.vJoinSplit[k].vpub_new = 0
    /\ AddLeg(Accumulate(Accumulate({0}, t.vout), OldAmounts(t)),
              t.valueBalance < 0 \/ (zeroOut /\ t.valueBalance = 0),
              -t.valueBalance) # {}
    /\ AddLeg(Accumulate({0}, NewAmounts(t)),
              t.valueBalance > 0 \/ (zeroIn /\ t.valueBalance = 0),
              t.valueBalance) # {}
    /\ ~FailsDuplicates(t)
    /\ ~FailsRules(t)
SameAcceptedSet ==
    Done => \A zeroOut, zeroIn \in BOOLEAN :
                verdict = Valid <=> LateLegAccepts(tx, zeroOut, zeroIn)

\* C8 witness: an accepted transaction with a negative delta and a join-split
\* moving value out of the transparent pool.
AcceptedWithBothOutgoingLegs ==
    /\ verdict = Valid
    /\ tx.valueBalance < 0
    /\ \E k \in 1 .. Len(tx.vJoinSplit) : tx.vJoinSplit[k].vpub_old > 0

\* C9: each duplicate verdict is returned only for a repeat inside its own key
\* space; each set holds only values of its own key space; a value shared
\* between key spaces, and repeated in none, passes the duplicate pass.
ToSet(s) == {s[k] : k \in 1 .. Len(s)}
DuplicateChecksIndependent ==
    /\ verdict = "bad-txns-inputs-duplicate" => HasDupInputs(tx)
    /\ verdict = "bad-joinsplits-nullifiers-duplicate" => HasDupSprout(tx)
    /\ verdict = "bad-spend-description-nullifiers-duplicate" => HasDupSapling(tx)
    /\ ~FailsDuplicates(tx) => verdict \notin ReasonsOf(5)
    /\ ~FailsDuplicates(tx) /\ FirstFailing(tx) \notin 1 .. 4 /\ Done => pc = "rules"
    /\ vInOutPoints \subseteq {tx.vin[k].prevout : k \in 1 .. Len(tx.vin)}
    /\ vInSproutNullifiers \subseteq ToSet(SproutNullifiers(tx))
    /\ vInSaplingNullifiers \subseteq ToSet(tx.vShieldedSpend)

\* C9 witness: the duplicate pass passed with one value present as a
\* first-generation nullifier, a second-generation nullifier and an input.
SharedValuePassesDuplicates ==
    /\ pc = "rules"
    /\ vInSproutNullifiers \cap vInSaplingNullifiers # {}
    /\ vInOutPoints \cap vInSaplingNullifiers # {}

\* C10: an accepted transaction has no second-generation spend with a null
\* nullifier and at most one null transparent input; with one, it is coinbase,
\* has no spend descriptions and a first script of size in [2, 100].  A
\* coinbase transaction never gets the ordinary branch's verdicts, nor an
\* ordinary one the coinbase branch's.
AcceptedNullReferences ==
    /\ verdict = Valid =>
          /\ NullSpends(tx) = {}
          /\ Cardinality(NullInputs(tx)) <= 1
          /\ NullInputs(tx) # {} =>
                /\ FirstInputNull(tx)
                /\ Len(tx.vShieldedSpend) = 0
                /\ ~CbLengthBad(tx)
    /\ FirstInputNull(tx) =>
          verdict \notin {"bad-txns-prevout-null", "bad-spend-description-nullifier-null"}
    /\ ~FirstInputNull(tx) =>
          verdict \notin {"bad-cb-length", "bad-cb-has-spend-description"}

\* C10 witness: an accepted coinbase transaction.
AcceptedCoinbase ==
    /\ verdict = Valid
    /\ NullInputs(tx) = {1}
====
